---- MODULE Spec2Model ----
(***************************************************************************)
(* A model of GAGItemsMonitor (src/gag_seeds_client.py): the run loop      *)
(* (fetch every category, check the watched items, notify, display, wait)  *)
(* and the keyboard listener thread that shares auto_refresh,              *)
(* last_refresh_time and running with it.                                  *)
(*                                                                         *)
(* Time is in whole seconds.  since_refresh is time.time() minus           *)
(* last_refresh_time, the only way the code reads the clock; it saturates  *)
(* at MaxSince.                                                            *)
(***************************************************************************)
EXTENDS Integers, Sequences, FiniteSets, TLC

\* ------------------------------------------------------------------ bounds

\* Largest quantity of an item record.
MaxQty == 1
\* Longest watchlist.
MaxWatch == 2
\* Most item records in one snapshot (over all categories).
MaxItems == 2
\* Most seconds one request takes.
MaxRequestTime == 1

\* ------------------------------------------------------- program constants

categories == <<"seeds", "gear", "eggs", "cosmetics", "eventshop">>

auto_refresh_interval == 60

\* time.sleep(5) of the top-level exception handler.
RetryDelay == 5

\* since_refresh saturates here: past the interval the code reads only its
\* sign against the interval.
MaxSince == auto_refresh_interval + RetryDelay

\* ------------------------------------------------------------ input domains

\* Lines of watchlist.txt.
WatchNames == {"Carrot", "carrot", "Tulip"}

\* Item names the API returns.
ItemNames == {"carrot", "CARROT"}

\* str.lower() on the names above.
Lower(s) ==
    CASE s \in {"Carrot", "carrot", "CARROT"} -> "carrot"
      [] s \in {"Tulip", "tulip", "TULIP"} -> "tulip"
      [] OTHER -> s

Records == [name : ItemNames, quantity : 0..MaxQty]

SeqsUpTo(S, n) == UNION {[1..k -> S] : k \in 0..n}

\* A parsed JSON body: a list of item records, or a body that is valid JSON of
\* another shape: a non-empty object, or a non-empty list of scalars.
ListBody(items) == [kind |-> "list", items |-> items]

EmptyBody == ListBody(<<>>)

ObjectBody == [kind |-> "object", items |-> <<>>]

ScalarsBody == [kind |-> "scalars", items |-> <<>>]

Bodies == {ListBody(s) : s \in SeqsUpTo(Records, MaxItems)} \cup {ObjectBody, ScalarsBody}

\* What session.get() and response.json() do for one category.
Response(kind, body) == [kind |-> kind, body |-> body]

Failures == {Response(k, EmptyBody) : k \in {"network_error", "http_error", "bad_json"}}

Responses == Failures \cup {Response("json", b) : b \in Bodies}

Watchlists == SeqsUpTo(WatchNames, MaxWatch)

\* ------------------------------------------------------------------- dicts

EmptyDict == [x \in {} |-> 0]

Put(d, k, v) == [x \in DOMAIN d \cup {k} |-> IF x = k THEN v ELSE d[x]]

Get(d, k, default) == IF k \in DOMAIN d THEN d[k] ELSE default

\* ------------------------------------------------------------------- state

VARIABLES
    watchlist,        \* self.watchlist: the lines of watchlist.txt, in order
    discord_webhook,  \* whether self.discord_webhook is set (TRUE) or None
    previous_stock,   \* self.previous_stock: lower-cased name -> quantity
    auto_refresh,     \* self.auto_refresh
    since_refresh,    \* time.time() - self.last_refresh_time, in seconds
    running,          \* self.running
    pc,               \* where run() is
    cat_idx,          \* get_all_items_data: index of the category being fetched
    all_data,         \* all_data / all_items_data: category -> body
    fetch_errors,     \* the categories whose fetch printed an error in this cycle
    current_stock,    \* check_stock_changes: lower-cased name -> quantity, category
    idx,              \* check_stock_changes: index of the watched item
    remaining,        \* run: iterations left of "for _ in range(remaining)"
    kpc,              \* where keyboard_input_handler() is
    triggers,         \* the alerts printed in this cycle, in order
    dispatches,       \* the requests.post() calls of this cycle, in order
    displayed,        \* whether display_all_items printed its report in this cycle
    watched_items_found, \* display_all_items: the records it marked as watched
    stock_before      \* previous_stock as it was when this cycle began

vars ==
    <<watchlist, discord_webhook, previous_stock, auto_refresh, since_refresh,
      running, pc, cat_idx, all_data, fetch_errors, current_stock, idx, remaining,
      kpc, triggers, dispatches, displayed, watched_items_found, stock_before>>

config == <<watchlist, discord_webhook>>

mode == <<auto_refresh, since_refresh, running>>

cycle ==
    <<cat_idx, all_data, fetch_errors, current_stock, idx, triggers, dispatches,
      displayed, watched_items_found, stock_before>>

\* ----------------------------------------------------------------- helpers

Min(a, b) == IF a < b THEN a ELSE b

\* The clock after d more seconds.
Later(t, d) == Min(t + d, MaxSince)

\* The item records fetched so far.
ItemCount(data) ==
    LET n[i \in 0..Len(categories)] ==
            IF i = 0 THEN 0
            ELSE n[i - 1] + (IF categories[i] \in DOMAIN data
                             THEN Len(data[categories[i]].items) ELSE 0)
    IN n[Len(categories)]

\* all_data[category] after one request: response.json() on status 200, [] on
\* a non-200 status, a RequestException or a JSONDecodeError.
Failed(r) == r.kind # "json"

Fetched(r) == IF Failed(r) THEN EmptyBody ELSE r.body

\* The snapshot's records in the order "for category, items in
\* all_items_data.items(): for item in items" visits them.
Scan(data) ==
    LET f[i \in 0..Len(categories)] ==
            IF i = 0 THEN <<>>
            ELSE IF categories[i] \in DOMAIN data
                 THEN f[i - 1] \o [j \in 1..Len(data[categories[i]].items) |->
                         [name |-> data[categories[i]].items[j].name,
                          quantity |-> data[categories[i]].items[j].quantity,
                          category |-> categories[i]]]
                 ELSE f[i - 1]
    IN f[Len(categories)]

\* StoreItem, had it kept the first record of a name.
StoreFirst(stock, e) ==
    IF Lower(e.name) \in DOMAIN stock THEN stock
    ELSE Put(stock, Lower(e.name), [quantity |-> e.quantity, category |-> e.category])

\* current_stock[item_name] = {'quantity': quantity, 'category': category} for
\* every record of the scan, in order.
StoreItem(stock, e) ==
    Put(stock, Lower(e.name), [quantity |-> e.quantity, category |-> e.category])

CurrentStock(data) ==
    LET s == Scan(data)
        f[i \in 0..Len(s)] == IF i = 0 THEN EmptyDict ELSE StoreItem(f[i - 1], s[i])
    IN f[Len(s)]

\* item.get(...) raises AttributeError on the element of a body that is not a
\* list of objects (the key of an object, a scalar of a list).
Malformed(data) == \E c \in DOMAIN data : data[c].kind # "list"

NotFound == [quantity |-> 0, category |-> "unknown"]

\* -------------------------------------------------------------------- Init

\* __init__: the configuration is loaded, nothing has been observed,
\* auto-refresh is off, last_refresh_time is now.  The listener thread is
\* started first thing by run().
InitWith(lists, webhooks) ==
    /\ watchlist \in lists
    /\ discord_webhook \in webhooks
    /\ previous_stock = EmptyDict
    /\ auto_refresh = FALSE
    /\ since_refresh = 0
    /\ running = TRUE
    /\ pc = "while"
    /\ cat_idx = 1
    /\ all_data = EmptyDict
    /\ fetch_errors = {}
    /\ current_stock = EmptyDict
    /\ idx = 1
    /\ remaining = 0
    /\ kpc = "poll"
    /\ triggers = <<>>
    /\ dispatches = <<>>
    /\ displayed = FALSE
    /\ watched_items_found = <<>>
    /\ stock_before = EmptyDict

Init == InitWith(Watchlists, BOOLEAN)

\* ---------------------------------------------------------------- run loop

\* "while self.running:" and the start of get_all_items_data.
WhileCheck ==
    /\ pc = "while"
    /\ IF running
       THEN /\ pc' = "fetch"
            /\ cat_idx' = 1
            /\ all_data' = EmptyDict
            /\ fetch_errors' = {}
            /\ triggers' = <<>>
            /\ dispatches' = <<>>
            /\ displayed' = FALSE
            /\ watched_items_found' = <<>>
            /\ stock_before' = previous_stock
       ELSE /\ pc' = "stopped"
            /\ UNCHANGED <<cat_idx, all_data, fetch_errors, triggers, dispatches,
                           displayed, watched_items_found, stock_before>>
    /\ UNCHANGED <<config, previous_stock, mode, current_stock, idx, remaining, kpc>>

\* FetchCategory, had the try/except been around the loop: a failed request
\* ends the fetch with the categories fetched so far.
FetchAbortsOnFailure(r, seconds) ==
    /\ pc = "fetch"
    /\ ItemCount(all_data) + Len(Fetched(r).items) <= MaxItems
    /\ since_refresh' = Later(since_refresh, seconds)
    /\ IF Failed(r)
       THEN /\ fetch_errors' = fetch_errors \cup {categories[cat_idx]}
            /\ pc' = "check"
            /\ UNCHANGED <<all_data, cat_idx>>
       ELSE /\ all_data' = Put(all_data, categories[cat_idx], Fetched(r))
            /\ IF cat_idx < Len(categories)
               THEN cat_idx' = cat_idx + 1 /\ pc' = "fetch"
               ELSE cat_idx' = cat_idx /\ pc' = "check"
            /\ UNCHANGED fetch_errors
    /\ UNCHANGED <<config, previous_stock, auto_refresh, running, current_stock, idx,
                   remaining, kpc, triggers, dispatches, displayed, watched_items_found, stock_before>>

\* One turn of "for category in self.categories": the request, which takes
\* some seconds, and what the try/except stores for the category.
FetchCategory(r, seconds) ==
    /\ pc = "fetch"
    /\ ItemCount(all_data) + Len(Fetched(r).items) <= MaxItems
    /\ since_refresh' = Later(since_refresh, seconds)
    /\ all_data' = Put(all_data, categories[cat_idx], Fetched(r))
    /\ fetch_errors' = IF Failed(r) THEN fetch_errors \cup {categories[cat_idx]}
                       ELSE fetch_errors
    /\ IF cat_idx < Len(categories)
       THEN cat_idx' = cat_idx + 1 /\ pc' = "fetch"
       ELSE cat_idx' = cat_idx /\ pc' = "check"
    /\ UNCHANGED <<config, previous_stock, auto_refresh, running, current_stock, idx,
                   remaining, kpc, triggers, dispatches, displayed, watched_items_found, stock_before>>

\* check_stock_changes up to its second loop: the early return on an empty
\* watchlist, then current_stock built from every category.  The exception a
\* malformed body raises reaches run()'s "except Exception".
CheckStart ==
    /\ pc = "check"
    /\ IF watchlist = <<>>
       THEN pc' = "display" /\ UNCHANGED <<current_stock, idx>>
       ELSE IF Malformed(all_data)
            THEN pc' = "retry" /\ UNCHANGED <<current_stock, idx>>
            ELSE /\ current_stock' = CurrentStock(all_data)
                 /\ idx' = 1
                 /\ pc' = "detect"
    /\ UNCHANGED <<config, previous_stock, mode, cat_idx, all_data, fetch_errors,
                   remaining, kpc, triggers, dispatches, displayed, watched_items_found, stock_before>>

\* The quantity and category check_stock_changes uses for a watched item.
CurrentData(stock, watched_item) == Get(stock, Lower(watched_item), NotFound)

\* InStock, had it alerted only when an item comes into stock.
InStockOnArrival(current_quantity, previous_quantity) ==
    current_quantity > 0 /\ previous_quantity = 0

\* "if current_quantity > 0:", whatever the previous quantity.
InStock(current_quantity, previous_quantity) == current_quantity > 0

\* The previous quantity an alert carries.
PreviousQuantity(stock, watched_item) == Get(stock, Lower(watched_item), 0)

\* UpdateAndAdvance, had it recorded a name only while it is in stock.
UpdateInStockOnly ==
    /\ previous_stock' =
          IF CurrentData(current_stock, watchlist[idx]).quantity > 0
          THEN Put(previous_stock, Lower(watchlist[idx]),
                   CurrentData(current_stock, watchlist[idx]).quantity)
          ELSE previous_stock
    /\ idx' = idx + 1
    /\ pc' = IF idx < Len(watchlist) THEN "detect" ELSE "display"

\* "self.previous_stock[watched_item_lower] = current_quantity", and on to
\* the next watched item, or back to run() after the last.
UpdateAndAdvance ==
    /\ previous_stock' = Put(previous_stock, Lower(watchlist[idx]),
                             CurrentData(current_stock, watchlist[idx]).quantity)
    /\ idx' = idx + 1
    /\ pc' = IF idx < Len(watchlist) THEN "detect" ELSE "display"

\* DetectItem, had the alert been part of the notification: nothing is
\* printed when no webhook is set.
DetectNeedsWebhook ==
    /\ pc = "detect"
    /\ LET w == watchlist[idx]
           cur == CurrentData(current_stock, w)
       IN IF InStock(cur.quantity, PreviousQuantity(previous_stock, w)) /\ discord_webhook
          THEN /\ triggers' = Append(triggers,
                       [name |-> w, category |-> cur.category, quantity |-> cur.quantity,
                        previous |-> PreviousQuantity(previous_stock, w)])
               /\ pc' = "post"
               /\ UNCHANGED <<previous_stock, idx>>
          ELSE /\ UNCHANGED triggers
               /\ UpdateAndAdvance
    /\ UNCHANGED <<config, mode, cat_idx, all_data, fetch_errors, current_stock,
                   remaining, kpc, dispatches, displayed, watched_items_found,
                   stock_before>>

\* One turn of "for watched_item in self.watchlist" up to the request of
\* send_discord_notification; all of it when nothing is posted.
DetectItem ==
    /\ pc = "detect"
    /\ LET w == watchlist[idx]
           cur == CurrentData(current_stock, w)
       IN IF InStock(cur.quantity, PreviousQuantity(previous_stock, w))
          THEN /\ triggers' = Append(triggers,
                       [name |-> w, category |-> cur.category, quantity |-> cur.quantity,
                        previous |-> PreviousQuantity(previous_stock, w)])
               /\ IF discord_webhook
                  THEN pc' = "post" /\ UNCHANGED <<previous_stock, idx>>
                  ELSE UpdateAndAdvance
          ELSE /\ UNCHANGED triggers
               /\ UpdateAndAdvance
    /\ UNCHANGED <<config, mode, cat_idx, all_data, fetch_errors, current_stock,
                   remaining, kpc, dispatches, displayed, watched_items_found,
                   stock_before>>

PostOutcomes == {"204", "http_error", "network_error"}

\* PostDone, had the failure of the request reached run(): the turn of the loop
\* is abandoned.
PostAbortsOnFailure(outcome, seconds) ==
    /\ pc = "post"
    /\ dispatches' = Append(dispatches,
                            [event |-> triggers[Len(triggers)], outcome |-> outcome])
    /\ since_refresh' = Later(since_refresh, seconds)
    /\ IF outcome = "204"
       THEN UpdateAndAdvance
       ELSE pc' = "retry" /\ UNCHANGED <<previous_stock, idx>>
    /\ UNCHANGED <<config, auto_refresh, running, cat_idx, all_data, fetch_errors,
                   current_stock, remaining, kpc, triggers, displayed,
                   watched_items_found, stock_before>>

\* requests.post() returns or raises after some seconds; either is only
\* printed.  Then the rest of the turn of the loop.
PostDone(outcome, seconds) ==
    /\ pc = "post"
    /\ dispatches' = Append(dispatches,
                            [event |-> triggers[Len(triggers)], outcome |-> outcome])
    /\ since_refresh' = Later(since_refresh, seconds)
    /\ UpdateAndAdvance
    /\ UNCHANGED <<config, auto_refresh, running, cat_idx, all_data, fetch_errors,
                   current_stock, remaining, kpc, triggers, displayed, watched_items_found, stock_before>>

\* IsWatched, had it compared the names as they are written.
IsWatchedExact(item_name) == item_name \in {watchlist[i] : i \in 1..Len(watchlist)}

\* "is_watched = item_name.lower() in [s.lower() for s in self.watchlist]".
IsWatched(item_name) ==
    Lower(item_name) \in {Lower(watchlist[i]) : i \in 1..Len(watchlist)}

\* watched_items_found: the records display_all_items marks as watched, in the
\* order it prints them.
WatchedItemsFound(data) ==
    LET s == Scan(data)
        f[i \in 0..Len(s)] ==
            IF i = 0 THEN <<>>
            ELSE IF IsWatched(s[i].name)
                 THEN Append(f[i - 1], [name |-> s[i].name, category |-> s[i].category])
                 ELSE f[i - 1]
    IN f[Len(s)]

\* time_until_next, the countdown display_all_items prints under auto-refresh.
TimeUntilNext == auto_refresh_interval - since_refresh

\* Display, had run() called it before check_stock_changes.
DisplayBeforeCheck ==
    /\ \/ pc = "check" /\ ~displayed /\ pc' = "check"
       \/ pc = "display" /\ pc' = "mode"
    /\ displayed' = TRUE
    /\ watched_items_found' = WatchedItemsFound(all_data)
    /\ UNCHANGED <<config, previous_stock, mode, cat_idx, all_data, fetch_errors,
                   current_stock, idx, remaining, kpc, triggers, dispatches,
                   stock_before>>

\* Display, had it restarted the clock of the auto-refresh.
DisplayResetsClock ==
    /\ pc = "display"
    /\ IF Malformed(all_data)
       THEN pc' = "retry" /\ UNCHANGED <<displayed, watched_items_found>>
       ELSE /\ pc' = "mode"
            /\ displayed' = TRUE
            /\ watched_items_found' = WatchedItemsFound(all_data)
    /\ since_refresh' = 0
    /\ UNCHANGED <<config, previous_stock, auto_refresh, running, cat_idx, all_data,
                   fetch_errors, current_stock, idx, remaining, kpc, triggers,
                   dispatches, stock_before>>

\* display_all_items: the report, or the exception of item.get on a malformed
\* body.
Display ==
    /\ pc = "display"
    /\ IF Malformed(all_data)
       THEN pc' = "retry" /\ UNCHANGED <<displayed, watched_items_found>>
       ELSE /\ pc' = "mode"
            /\ displayed' = TRUE
            /\ watched_items_found' = WatchedItemsFound(all_data)
    /\ UNCHANGED <<config, previous_stock, mode, cat_idx, all_data, fetch_errors,
                   current_stock, idx, remaining, kpc, triggers, dispatches,
                   stock_before>>

\* "if self.auto_refresh:" after the display: reset the clock when the
\* interval has passed, else count down; in manual mode, prompt.
ModeCheck ==
    /\ pc = "mode"
    /\ IF auto_refresh
       THEN IF since_refresh >= auto_refresh_interval
            THEN since_refresh' = 0 /\ pc' = "while" /\ UNCHANGED remaining
            ELSE /\ remaining' = auto_refresh_interval - since_refresh
                 /\ pc' = "countdown"
                 /\ UNCHANGED since_refresh
       ELSE pc' = "input" /\ UNCHANGED <<since_refresh, remaining>>
    /\ UNCHANGED <<config, previous_stock, auto_refresh, running, cycle, kpc>>

\* CountdownCheck, had the loop not looked at self.running.
CountdownIgnoresQuit ==
    /\ pc = "countdown"
    /\ IF remaining = 0
       THEN pc' = "while" /\ UNCHANGED remaining
       ELSE pc' = "sleep" /\ remaining' = remaining - 1
    /\ UNCHANGED <<config, previous_stock, mode, cycle, kpc>>

\* The head of "for _ in range(remaining):" and "if not self.running: break".
CountdownCheck ==
    /\ pc = "countdown"
    /\ IF remaining = 0 \/ ~running
       THEN pc' = "while" /\ UNCHANGED remaining
       ELSE pc' = "sleep" /\ remaining' = remaining - 1
    /\ UNCHANGED <<config, previous_stock, mode, cycle, kpc>>

\* time.sleep(1) of the countdown.
SleepDone ==
    /\ pc = "sleep"
    /\ since_refresh' = Later(since_refresh, 1)
    /\ pc' = "countdown"
    /\ UNCHANGED <<config, previous_stock, auto_refresh, running, cycle, remaining,
                   kpc>>

\* What input().strip().lower() can return.
Lines == {"quit", "exit", "q", "r", "", "x"}

\* InputLine, had 'q' not been one of the quit lines.
InputLineWithoutQ(user_input) ==
    /\ pc = "input"
    /\ IF user_input \in {"quit", "exit"}
       THEN running' = FALSE /\ pc' = "stopped" /\ UNCHANGED <<auto_refresh, since_refresh>>
       ELSE IF user_input = "r"
            THEN /\ auto_refresh' = TRUE
                 /\ since_refresh' = 0
                 /\ pc' = "while"
                 /\ UNCHANGED running
            ELSE pc' = "refresh" /\ UNCHANGED mode
    /\ UNCHANGED <<config, previous_stock, cycle, remaining, kpc>>

\* Manual mode: the line the user enters.
InputLine(user_input) ==
    /\ pc = "input"
    /\ IF user_input \in {"quit", "exit", "q"}
       THEN running' = FALSE /\ pc' = "stopped" /\ UNCHANGED <<auto_refresh, since_refresh>>
       ELSE IF user_input = "r"
            THEN /\ auto_refresh' = TRUE
                 /\ since_refresh' = 0
                 /\ pc' = "while"
                 /\ UNCHANGED running
            ELSE pc' = "refresh" /\ UNCHANGED mode
    /\ UNCHANGED <<config, previous_stock, cycle, remaining, kpc>>

\* time.sleep(1) after "Refreshing data...".
RefreshSleepDone ==
    /\ pc = "refresh"
    /\ since_refresh' = Later(since_refresh, 1)
    /\ pc' = "while"
    /\ UNCHANGED <<config, previous_stock, auto_refresh, running, cycle, remaining,
                   kpc>>

\* RetryDone, had the handler ended the loop.
RetryGivesUp ==
    /\ pc = "retry"
    /\ since_refresh' = Later(since_refresh, RetryDelay)
    /\ running' = FALSE
    /\ pc' = "stopped"
    /\ UNCHANGED <<config, previous_stock, auto_refresh, cycle, remaining, kpc>>

\* "except Exception": time.sleep(5), then the loop goes on.
RetryDone ==
    /\ pc = "retry"
    /\ since_refresh' = Later(since_refresh, RetryDelay)
    /\ pc' = "while"
    /\ UNCHANGED <<config, previous_stock, auto_refresh, running, cycle, remaining,
                   kpc>>

\* A second passes while input() waits for the user.
InputWait ==
    /\ pc = "input"
    /\ since_refresh < MaxSince
    /\ since_refresh' = since_refresh + 1
    /\ UNCHANGED <<config, previous_stock, auto_refresh, running, pc, cycle, remaining,
                   kpc>>

\* ---------------------------------------------------------------- listener

\* "while self.running:" of keyboard_input_handler is false: the thread ends.
KbExit ==
    /\ kpc = "poll"
    /\ ~running
    /\ kpc' = "done"
    /\ UNCHANGED <<config, previous_stock, mode, pc, cycle, remaining>>

\* The keys, upper-cased; "?" is any other key, "undecodable" a byte that
\* decode('utf-8') rejects.
Keys == {"M", "R", "Q", "?", "undecodable"}

\* One turn of the loop with a key waiting: the key is read and handled.  'M'
\* on: auto_refresh is set, and last_refresh_time only after the print that
\* follows.
KeyPress(key) ==
    /\ kpc = "poll"
    /\ running
    /\ CASE key = "M" ->
              /\ auto_refresh' = ~auto_refresh
              /\ kpc' = IF auto_refresh THEN "poll" ELSE "enabled"
              /\ UNCHANGED <<since_refresh, running>>
         [] key = "R" ->
              /\ since_refresh' = 0
              /\ kpc' = "poll"
              /\ UNCHANGED <<auto_refresh, running>>
         [] key = "Q" ->
              /\ running' = FALSE
              /\ kpc' = "done"
              /\ UNCHANGED <<auto_refresh, since_refresh>>
         [] key = "undecodable" ->
              /\ kpc' = "done"
              /\ UNCHANGED mode
         [] OTHER ->
              /\ kpc' = "poll"
              /\ UNCHANGED mode
    /\ UNCHANGED <<config, previous_stock, pc, cycle, remaining>>

\* "self.last_refresh_time = time.time()" of 'M' on.
KbResetTime ==
    /\ kpc = "enabled"
    /\ since_refresh' = 0
    /\ kpc' = "poll"
    /\ UNCHANGED <<config, previous_stock, auto_refresh, running, pc, cycle, remaining>>

\* ---------------------------------------------------------- specifications

\* The user refreshes by hand only in the first seconds of a run.
MaxRefreshTime == 2

\* The categories that hold item records under Spec.
StockedCategories == {"seeds", "gear"}

\* The steps of run() that wait for nothing outside the program.
CycleStep ==
    \/ WhileCheck
    \/ CheckStart
    \/ DetectItem
    \/ Display
    \/ ModeCheck

\* Every request succeeds with a list of item records.
GoodResponses == {Response("json", ListBody(s)) : s \in SeqsUpTo(Records, MaxItems)}

\* Manual mode over every watchlist and every well-formed snapshot: the user
\* refreshes with the empty line, or quits.
Next ==
    \/ CycleStep
    \/ \E r \in GoodResponses :
          /\ categories[cat_idx] \notin StockedCategories => r.body = EmptyBody
          /\ FetchCategory(r, 0)
    \/ PostDone("204", 0)
    \/ since_refresh < MaxRefreshTime /\ InputLine("")
    \/ InputLine("quit")
    \/ RefreshSleepDone

Spec == Init /\ [][Next]_vars

\* Failing requests, malformed bodies and failing notifications, with a short
\* watchlist and one kind of item record.
ErrorWatchlists == {<<>>, <<"Carrot">>}

ErrorInit == InitWith(ErrorWatchlists, BOOLEAN)

ErrorResponses ==
    Failures \cup {Response("json", b) :
                      b \in {EmptyBody, ListBody(<<[name |-> "CARROT", quantity |-> 1]>>),
                             ObjectBody, ScalarsBody}}

\* Bodies are malformed only in the first seconds of a run.
ErrorNext ==
    \/ CycleStep
    \/ RetryDone
    \/ \E r \in ErrorResponses :
          /\ r.body.kind # "list" => since_refresh < MaxRefreshTime
          /\ FetchCategory(r, 0)
    \/ \E o \in PostOutcomes : PostDone(o, 0)
    \/ since_refresh < MaxRefreshTime /\ InputLine("")
    \/ InputLine("quit")
    \/ RefreshSleepDone

ErrorSpec == ErrorInit /\ [][ErrorNext]_vars

\* The run loop and the listener over time, with one watched name and the
\* webhook set: the first category holds one record or is malformed, the
\* others are empty.
LoopInit == InitWith({<<"Carrot">>}, {TRUE})

LoopResponses ==
    {Response("json", ListBody(<<[name |-> "CARROT", quantity |-> 1]>>)),
     Response("json", ObjectBody)}

\* The steps the run loop takes by itself, a request that returns included.
MainStep ==
    \/ CycleStep
    \/ \E r \in LoopResponses \cup {Response("json", EmptyBody)}, seconds \in 0..MaxRequestTime :
          /\ (cat_idx = 1) = (r \in LoopResponses)
          /\ FetchCategory(r, seconds)
    \/ \E seconds \in 0..MaxRequestTime : PostDone("204", seconds)
    \/ CountdownCheck
    \/ SleepDone
    \/ RefreshSleepDone
    \/ RetryDone

\* The steps of the listener thread.
ListenerStep ==
    \/ KbExit
    \/ \E key \in Keys : KeyPress(key)
    \/ KbResetTime

LoopNext ==
    \/ MainStep
    \/ ListenerStep
    \/ \E user_input \in Lines : InputLine(user_input)
    \/ InputWait

LoopSpec == LoopInit /\ [][LoopNext]_vars

\* Auto-refresh left alone: the user enters 'r' at the first prompt and gives
\* no other command, and every body is well-formed.
AutoNext ==
    \/ CycleStep
    \/ \E r \in LoopResponses \cup {Response("json", EmptyBody)}, seconds \in 0..MaxRequestTime :
          /\ (cat_idx = 1) = (r \in LoopResponses)
          /\ r.body.kind = "list"
          /\ FetchCategory(r, seconds)
    \/ \E seconds \in 0..MaxRequestTime : PostDone("204", seconds)
    \/ CountdownCheck
    \/ SleepDone
    \/ InputLine("r")
    \/ InputWait

AutoSpec == LoopInit /\ [][AutoNext]_vars

\* Manual mode with the webhook set and every outcome of a notification, over
\* every watchlist and every well-formed snapshot.
NotifyInit == InitWith(Watchlists, {TRUE})

\* Records of two items, so that two watched names can be in stock at once.
NotifyResponses ==
    {Response("json", ListBody(s)) :
        s \in SeqsUpTo([name : {"CARROT", "tulip"}, quantity : 0..MaxQty], MaxItems)}

NotifyNext ==
    \/ CycleStep
    \/ \E r \in NotifyResponses :
          /\ categories[cat_idx] \notin StockedCategories => r.body = EmptyBody
          /\ FetchCategory(r, 0)
    \/ \E o \in PostOutcomes : PostDone(o, 0)
    \/ since_refresh < MaxRefreshTime /\ InputLine("")
    \/ InputLine("quit")
    \/ RefreshSleepDone

NotifySpec == NotifyInit /\ [][NotifyNext]_vars

\* ------------------------------------------------------------------ claims

SetMax(S) == CHOOSE x \in S : \A y \in S : y <= x

SetMin(S) == CHOOSE x \in S : \A y \in S : x <= y

\* The places in the scan of the records whose name is the watched name, case
\* apart.
Matches(data, w) == {i \in 1..Len(Scan(data)) : Lower(Scan(data)[i].name) = Lower(w)}

MatchAt(data, i) ==
    [quantity |-> Scan(data)[i].quantity, category |-> Scan(data)[i].category]

FirstMatch(data, w) ==
    IF Matches(data, w) = {} THEN NotFound ELSE MatchAt(data, SetMin(Matches(data, w)))

LastMatch(data, w) ==
    IF Matches(data, w) = {} THEN NotFound ELSE MatchAt(data, SetMax(Matches(data, w)))

\* The first k watchlist entries whose quantity in the snapshot is above 0.
WatchedInStock(data, k) ==
    LET f[i \in 0..k] ==
            IF i = 0 THEN <<>>
            ELSE IF LastMatch(data, watchlist[i]).quantity > 0
                 THEN Append(f[i - 1], watchlist[i])
                 ELSE f[i - 1]
    IN f[k]

TriggerNames == [i \in 1..Len(triggers) |-> triggers[i].name]

LowerWatchlist == {Lower(watchlist[i]) : i \in 1..Len(watchlist)}

\* check_stock_changes has returned in this cycle.
DetectionDone == pc \in {"display", "mode", "input", "refresh", "countdown", "sleep"}

\* C1: in every cycle the trigger events are exactly the watchlist entries
\* whose quantity in that cycle's snapshot is above 0, whatever the previous
\* quantity; an entry at 0 or absent from the snapshot does not trigger.
C1_TriggersExactlyInStock ==
    /\ pc = "detect" => TriggerNames = WatchedInStock(all_data, idx - 1)
    /\ pc = "post" => TriggerNames = WatchedInStock(all_data, idx)
    /\ DetectionDone => TriggerNames = WatchedInStock(all_data, Len(watchlist))
    /\ \A i \in 1..Len(triggers) : triggers[i].quantity > 0

\* A repeat alert (the previous quantity was above 0 already) in a cycle
\* where another watched name is out of stock.
C1_Witness ==
    /\ DetectionDone
    /\ \E i \in 1..Len(triggers) : triggers[i].previous > 0
    /\ \E i \in 1..Len(watchlist) : LastMatch(all_data, watchlist[i]).quantity = 0

\* C2: after every completed cycle the keys of previous_stock are exactly the
\* lower-cased watchlist names, each mapped to the quantity observed for the
\* name in that cycle's snapshot, 0 if it is absent.
C2_ObservationState ==
    displayed =>
        /\ DOMAIN previous_stock = LowerWatchlist
        /\ \A i \in 1..Len(watchlist) :
              previous_stock[Lower(watchlist[i])] = LastMatch(all_data, watchlist[i]).quantity

\* A second or later cycle completed with one watched name absent from the
\* snapshot and another in stock.
C2_Witness ==
    /\ displayed
    /\ stock_before # EmptyDict
    /\ \E i \in 1..Len(watchlist) : Matches(all_data, watchlist[i]) = {}
    /\ \E i \in 1..Len(watchlist) : LastMatch(all_data, watchlist[i]).quantity > 0

\* C3: every trigger event carries as previous quantity the quantity that
\* previous_stock held for the name at the end of the preceding cycle (0 if
\* never observed), repeated watchlist names included.
C3_PreviousIsLastCycles ==
    \A i \in 1..Len(triggers) :
        triggers[i].previous = Get(stock_before, Lower(triggers[i].name), 0)

\* C6 as claimed: the detector uses the first matching record in scan order,
\* and 0 / "unknown" when none matches.
C6_FirstMatchWins ==
    /\ pc \in {"detect", "post"} =>
          \A i \in 1..Len(watchlist) :
              CurrentData(current_stock, watchlist[i]) = FirstMatch(all_data, watchlist[i])
    /\ \A i \in 1..Len(triggers) :
          [quantity |-> triggers[i].quantity, category |-> triggers[i].category]
              = FirstMatch(all_data, triggers[i].name)

\* C6, amended: the detector uses the last matching record in scan order, and
\* 0 / "unknown" when none matches.
C6_LastMatchWins ==
    /\ pc \in {"detect", "post"} =>
          \A i \in 1..Len(watchlist) :
              CurrentData(current_stock, watchlist[i]) = LastMatch(all_data, watchlist[i])
    /\ \A i \in 1..Len(triggers) :
          [quantity |-> triggers[i].quantity, category |-> triggers[i].category]
              = LastMatch(all_data, triggers[i].name)

\* The detector at work on a watched name with two matching records that
\* differ in quantity and in category, and on a name no record matches.
C6_Witness ==
    /\ pc \in {"detect", "post"}
    /\ \E i \in 1..Len(watchlist) :
          /\ FirstMatch(all_data, watchlist[i]).quantity # LastMatch(all_data, watchlist[i]).quantity
          /\ FirstMatch(all_data, watchlist[i]).category # LastMatch(all_data, watchlist[i]).category
    /\ \E i \in 1..Len(watchlist) : Matches(all_data, watchlist[i]) = {}

AllFetched == DOMAIN all_data = {categories[i] : i \in 1..Len(categories)}

\* Every watched name has been looked up and its previous_stock entry written.
AllDetected == watchlist = <<>> \/ idx = Len(watchlist) + 1

\* C7 as claimed: the fetch completes before any detection step, detection of
\* all watched names (previous_stock updates included) before any
\* notification is dispatched, all notifications before the display.
C7_StrictPhases ==
    /\ pc \in {"check", "detect", "post", "display"} => AllFetched
    /\ pc = "fetch" => triggers = <<>> /\ dispatches = <<>> /\ ~displayed
    /\ (pc = "post" \/ dispatches # <<>>) => AllDetected
    /\ displayed => pc \notin {"fetch", "check", "detect", "post", "display"}

\* C7, amended: the fetch completes before any detection step, and detection
\* and notification complete before the display; detection and notification
\* alternate, a watched name's notification being dispatched right after the
\* name is looked up, before its previous_stock update and before the next
\* name is looked up.
C7_PhasesInterleaved ==
    /\ pc \in {"check", "detect", "post", "display"} => AllFetched
    /\ pc = "fetch" => triggers = <<>> /\ dispatches = <<>> /\ ~displayed
    /\ pc = "detect" =>
          /\ idx \in 1..Len(watchlist)
          /\ discord_webhook => Len(dispatches) = Len(triggers)
          /\ \A i \in idx..Len(watchlist) :
                Get(previous_stock, Lower(watchlist[i]), 0)
                    = Get(stock_before, Lower(watchlist[i]), 0)
                \/ \E j \in 1..(idx - 1) : Lower(watchlist[j]) = Lower(watchlist[i])
    /\ pc = "post" =>
          /\ idx \in 1..Len(watchlist)
          /\ Len(dispatches) = Len(triggers) - 1
          /\ triggers[Len(triggers)].name = watchlist[idx]
    /\ (pc = "display" \/ displayed) =>
          /\ pc \notin {"fetch", "check", "detect", "post"}
          /\ AllDetected
          /\ discord_webhook => Len(dispatches) = Len(triggers)
    /\ \A i \in 1..Len(dispatches) : dispatches[i].event = triggers[i]

\* A notification in flight for the first of two watched names, after an
\* earlier cycle: previous_stock is not yet updated for the first name and
\* the second name is not yet looked up.
C7_Witness ==
    /\ pc = "post"
    /\ idx = 1
    /\ Len(watchlist) = 2
    /\ Lower(watchlist[1]) # Lower(watchlist[2])
    /\ stock_before # EmptyDict
    /\ previous_stock = stock_before
    /\ triggers[1].quantity # Get(previous_stock, Lower(watchlist[1]), 0)

\* What the claim has a category map to after its request.
ExpectedBody(r) ==
    IF r.kind \in {"network_error", "http_error", "bad_json"} THEN ListBody(<<>>) ELSE r.body

\* One request: the category is added with the expected body, the categories
\* fetched before keep theirs, and the next category, or the end of the fetch,
\* follows whatever the outcome.
FetchStepAsClaimed ==
    \E r \in ErrorResponses :
        /\ all_data' = [c \in DOMAIN all_data \cup {categories[cat_idx]} |->
                          IF c = categories[cat_idx] THEN ExpectedBody(r) ELSE all_data[c]]
        /\ IF cat_idx < Len(categories)
           THEN pc' = "fetch" /\ cat_idx' = cat_idx + 1
           ELSE pc' = "check"

\* C4: whatever the outcome of each request (success, network error, non-200
\* status, unparsable body), get_all_items_data requests every category in the
\* fixed order and returns a snapshot with a key for every category, the
\* fetched records for a successful one and the empty sequence for a failed
\* one; a failure never ends the fetch.
C4_EveryCategoryFetched ==
    /\ [](pc = "fetch" => DOMAIN all_data = {categories[i] : i \in 1..(cat_idx - 1)})
    /\ [](pc \notin {"while", "fetch", "stopped"} => AllFetched)
    /\ [](\A c \in fetch_errors : c \in DOMAIN all_data /\ all_data[c] = ListBody(<<>>))
    /\ [][pc = "fetch" /\ <<pc, cat_idx, all_data>>' # <<pc, cat_idx, all_data>>
            => FetchStepAsClaimed]_vars

\* The fetch has returned: the first category failed, the second holds a
\* record, a later one failed too.
C4_Witness ==
    /\ pc = "check"
    /\ "seeds" \in fetch_errors
    /\ all_data["gear"].items # <<>>
    /\ "eventshop" \in fetch_errors

\* C5: a category whose response has status 200 and a malformed body has no
\* items in that cycle: once the fetch is over the snapshot maps it to the empty
\* sequence, and the cycle is not abandoned.
C5_MalformedBodyIsNoItems ==
    /\ pc # "retry"
    /\ pc \notin {"while", "fetch"} => \A c \in DOMAIN all_data : all_data[c].kind = "list"

\* running is false and the run loop is in its countdown: what it may do.
StepAfterQuit ==
    \/ pc' = pc
    \/ pc = "sleep" /\ pc' = "countdown" /\ remaining' = remaining
    \/ pc = "countdown" /\ pc' = "while"
    \/ pc = "while" /\ pc' = "stopped"

\* C8: once running is false while the run loop counts down under
\* auto-refresh, with any number of seconds remaining, the loop finishes at
\* most the time.sleep(1) it is in, leaves the countdown and stops; it sleeps
\* no second time and starts no fetch.
C8_QuitEndsCountdown ==
    /\ [][~running => ~running']_vars
    /\ [][~running /\ pc \in {"countdown", "sleep", "while"} => StepAfterQuit]_vars

\* The run loop has stopped out of a countdown with 45 turns left.
C8_Witness ==
    /\ pc = "stopped"
    /\ auto_refresh
    /\ displayed
    /\ remaining = 45

\* C9: once the quit command has set running to false the run loop reaches
\* STOPPED from wherever it is, in auto-refresh and in manual mode: it is
\* stopped or can take a step of its own towards it, and once stopped it takes
\* no step.
C9_QuitReachesStopped ==
    /\ ~running => pc = "stopped" \/ ENABLED MainStep
    /\ pc = "stopped" => ~ENABLED MainStep

\* C10: with auto-refresh on and no user command, every cycle is followed by
\* a countdown of at least one second: no two cycles run back to back.
C10_EveryCycleWaits ==
    [][pc = "mode" /\ auto_refresh /\ pc' # pc => pc' = "countdown" /\ remaining' >= 1]_vars

\* previous_stock after the first k watchlist entries of a cycle that began
\* with the quantities of before.
ObservedUpTo(before, data, k) ==
    LET f[i \in 0..k] ==
            IF i = 0 THEN before
            ELSE Put(f[i - 1], Lower(watchlist[i]), LastMatch(data, watchlist[i]).quantity)
    IN f[k]

\* The trigger events of the first k watchlist entries of that cycle.
EventsUpTo(before, data, k) ==
    LET f[i \in 0..k] ==
            IF i = 0 THEN <<>>
            ELSE IF LastMatch(data, watchlist[i]).quantity > 0
                 THEN Append(f[i - 1],
                         [name |-> watchlist[i],
                          category |-> LastMatch(data, watchlist[i]).category,
                          quantity |-> LastMatch(data, watchlist[i]).quantity,
                          previous |-> Get(ObservedUpTo(before, data, i - 1),
                                           Lower(watchlist[i]), 0)])
                 ELSE f[i - 1]
    IN f[k]

\* C11: with a webhook set every trigger event is dispatched exactly once, in
\* order, whatever the outcome of the dispatch; a failed dispatch does not
\* abandon the cycle: the remaining watched names are still detected and
\* notified, previous_stock is updated for every watched name and the display
\* is rendered.
C11_DispatchFailureIgnored ==
    /\ \A i \in 1..Len(dispatches) : dispatches[i].event = triggers[i]
    /\ discord_webhook =>
          Len(dispatches) = (IF pc = "post" THEN Len(triggers) - 1 ELSE Len(triggers))
    /\ pc # "retry"
    /\ DetectionDone =>
          /\ triggers = EventsUpTo(stock_before, all_data, Len(watchlist))
          /\ previous_stock = ObservedUpTo(stock_before, all_data, Len(watchlist))
    /\ pc \in {"mode", "input", "refresh"} => displayed

\* A cycle displayed after two dispatches failed, one on the network and one
\* with a status other than 204, for two different watched names.
C11_Witness ==
    /\ displayed
    /\ Len(dispatches) = 2
    /\ dispatches[1].outcome = "network_error"
    /\ dispatches[2].outcome = "http_error"
    /\ Lower(watchlist[1]) # Lower(watchlist[2])

\* The commands that set running to false: a quit line, or the key 'Q'.
QuitCommand == (\E user_input \in {"quit", "exit", "q"} : InputLine(user_input)) \/ KeyPress("Q")

\* C12: an exception raised in a phase of the cycle is caught by run(): the
\* handler leaves running as it is and, after RetryDelay seconds, goes back to
\* the head of the loop, which starts a new fetch while running is true; running
\* becomes false only by a quit command, and the loop stops only when running
\* is false.
C12_ErrorsAreNotFatal ==
    /\ [][pc # "retry" /\ pc' = "retry" => Malformed(all_data) /\ UNCHANGED mode]_vars
    /\ [][pc = "retry" /\ pc' # pc =>
            /\ pc' = "while"
            /\ running' = running
            /\ since_refresh' = Later(since_refresh, RetryDelay)]_vars
    /\ [][pc = "while" /\ running /\ pc' # pc => pc' = "fetch" /\ cat_idx' = 1]_vars
    /\ [][running /\ ~running' => QuitCommand]_vars
    /\ [][pc # "stopped" /\ pc' = "stopped" => ~running']_vars

\* A new fetch has started after the delay of the handler: nothing was observed
\* yet, for the first cycle raised in check_stock_changes.
C12_Witness ==
    /\ pc = "fetch"
    /\ cat_idx = 1
    /\ running
    /\ previous_stock = EmptyDict
    /\ since_refresh >= RetryDelay

\* The run loop starts a fetch after at most one more time.sleep(1).
WithinOneSleep ==
    \/ pc \in {"while", "fetch"}
    \/ pc = "countdown" /\ remaining <= 1
    \/ pc = "sleep" /\ remaining = 0

\* C13: when the key 'R' is pressed while the run loop waits, in its countdown
\* or at the prompt of manual mode, the loop starts a new fetch after at most
\* one more sleep increment.
C13_RefreshNowIsPrompt ==
    [][KeyPress("R") /\ pc \in {"countdown", "sleep", "input"} => WithinOneSleep']_vars

\* C14: with no webhook set no request is posted, in any cycle; the alerts of
\* a cycle (name, category, quantity, previous quantity, in order) and
\* previous_stock after it are what the watchlist, the snapshot and
\* previous_stock before the cycle determine, the same with and without a
\* webhook.
C14_NoWebhookNoDispatch ==
    /\ ~discord_webhook => dispatches = <<>> /\ pc # "post"
    /\ pc = "detect" =>
          /\ triggers = EventsUpTo(stock_before, all_data, idx - 1)
          /\ previous_stock = ObservedUpTo(stock_before, all_data, idx - 1)
    /\ DetectionDone =>
          /\ triggers = EventsUpTo(stock_before, all_data, Len(watchlist))
          /\ previous_stock = ObservedUpTo(stock_before, all_data, Len(watchlist))

\* A second or later cycle displayed with no webhook set and two alerts, one
\* of them for a name that was out of stock the cycle before.
C14_Witness ==
    /\ ~discord_webhook
    /\ displayed
    /\ Len(triggers) = 2
    /\ stock_before # EmptyDict
    /\ \E i \in 1..2 : triggers[i].previous = 0

\* The records of the snapshot whose name is a watchlist entry, case apart, in
\* scan order.
MatchedRecords(data) ==
    LET hit(e) == \E i \in 1..Len(watchlist) : Lower(e.name) = Lower(watchlist[i])
        s == SelectSeq(Scan(data), hit)
    IN [k \in 1..Len(s) |-> [name |-> s[k].name, category |-> s[k].category]]

\* C15 as claimed: for every watchlist entry and every record of the same
\* name, case apart, the detector uses that record's quantity for the entry,
\* and the display marks that record as watched.
C15_EveryMatchUsed ==
    /\ pc \in {"detect", "post"} =>
          \A i \in 1..Len(watchlist) : \A j \in Matches(all_data, watchlist[i]) :
              CurrentData(current_stock, watchlist[i]).quantity = Scan(all_data)[j].quantity
    /\ displayed => watched_items_found = MatchedRecords(all_data)

\* C15, amended: for every watchlist entry the detector uses the quantity of
\* the last record of the same name, case apart, in scan order, and the display
\* marks every record of the same name, case apart, as watched.
C15_LastMatchUsed ==
    /\ pc \in {"detect", "post"} =>
          \A i \in 1..Len(watchlist) :
              Matches(all_data, watchlist[i]) # {} =>
                  CurrentData(current_stock, watchlist[i]).quantity
                      = Scan(all_data)[SetMax(Matches(all_data, watchlist[i]))].quantity
    /\ displayed => watched_items_found = MatchedRecords(all_data)

\* A cycle displayed with an alert for a watched name written in another case
\* than the one record that bears it, the record marked as watched.
C15_Witness ==
    /\ displayed
    /\ \E i \in 1..Len(watchlist) :
          /\ Cardinality(Matches(all_data, watchlist[i])) = 1
          /\ \A j \in Matches(all_data, watchlist[i]) :
                /\ Scan(all_data)[j].name # watchlist[i]
                /\ Scan(all_data)[j].quantity > 0
                /\ \E k \in 1..Len(watched_items_found) :
                      watched_items_found[k].name = Scan(all_data)[j].name
          /\ \E k \in 1..Len(triggers) : triggers[k].name = watchlist[i]

\* What the claim has the run loop do with a line.
LineOutcome(user_input) ==
    IF user_input \in {"quit", "exit", "q"}
    THEN running' = FALSE /\ pc' = "stopped" /\ auto_refresh' = auto_refresh
    ELSE IF user_input = "r"
         THEN auto_refresh' = TRUE /\ since_refresh' = 0 /\ pc' = "while" /\ running' = running
         ELSE pc' = "refresh" /\ UNCHANGED <<auto_refresh, since_refresh, running>>

\* C16: with auto-refresh off the run loop goes from the display to input()
\* and leaves it only by a line: a quit line sets running to false and stops
\* the loop for good; 'r' sets auto_refresh, resets the clock and goes to the
\* head of the loop; any other line, the empty one included, leaves auto_refresh
\* as it is and goes to the head of the loop after a sleep of one second; the
\* head of the loop starts a fetch while running is true.
C16_LineCommands ==
    /\ [][pc = "mode" /\ ~auto_refresh /\ pc' # pc => pc' = "input"]_vars
    /\ [][\A user_input \in Lines : InputLine(user_input) => LineOutcome(user_input)]_vars
    /\ [][pc = "input" /\ pc' # pc => \E user_input \in Lines : InputLine(user_input)]_vars
    /\ [][pc = "stopped" => pc' = "stopped"]_vars
    /\ [][pc = "refresh" /\ pc' # pc =>
            pc' = "while" /\ auto_refresh' = auto_refresh /\ running' = running]_vars
    /\ [][pc = "while" /\ pc' # pc => pc' = (IF running THEN "fetch" ELSE "stopped")]_vars

\* The run loop sleeps its second after a line that is no command, in manual
\* mode, the listener still at work.
C16_Witness ==
    /\ pc = "refresh"
    /\ displayed
    /\ ~auto_refresh
    /\ running
    /\ kpc = "poll"

\* C17: when the key 'M' turns auto-refresh off during a countdown, the run
\* loop leaves the countdown after at most one more sleep increment; when it
\* turns auto-refresh on while the loop is at the prompt of manual mode, the
\* loop is no longer blocked there more than a second after last_refresh_time
\* was reset.
C17_ToggleActedOn ==
    /\ [][KeyPress("M") /\ auto_refresh /\ pc \in {"countdown", "sleep"}
            => WithinOneSleep']_vars
    /\ [](pc = "input" /\ auto_refresh /\ kpc # "enabled" => since_refresh <= 1)

\* C18: whenever display_all_items runs with auto-refresh on, the countdown it
\* prints lies between 0 and auto_refresh_interval.
C18_CountdownInRange ==
    pc = "display" /\ auto_refresh => TimeUntilNext \in 0..auto_refresh_interval

\* C19: display_all_items changes neither the snapshot, nor the watchlist, nor
\* previous_stock, nor auto_refresh, last_refresh_time or running.
C19_DisplayMutatesNothing ==
    [][pc = "display" /\ pc' # pc =>
          UNCHANGED <<all_data, watchlist, previous_stock, auto_refresh, since_refresh,
                      running>>]_vars

\* The report of a second or later cycle is out, under auto-refresh with the
\* clock running, a watched record marked and previous_stock filled.
C19_Witness ==
    /\ pc = "mode"
    /\ displayed
    /\ auto_refresh
    /\ since_refresh > 0
    /\ watched_items_found # <<>>
    /\ stock_before # EmptyDict

====
